---- MODULE Spec2Model ----
(***************************************************************************)
(* A model of cs-restaurant/input/convert.py: the dialogue-act (DA)        *)
(* notation (DAI, DA.parse, DA.has_value), the surface-form dictionary of  *)
(* MorphoAnalyzer, delexicalization of texts and DAs, and the partition    *)
(* sizing of convert().                                                    *)
(*                                                                         *)
(* Python strings are TLA+ strings, read character by character with       *)
(* SubSeq and Len.  Python's None is the value None below, a string that   *)
(* holds "<", a character no modelled text contains.                       *)
(*                                                                         *)
(* The module holds four specifications over one set of variables, one per *)
(* part of the program; each keeps the variables of the other parts at     *)
(* their idle values.                                                      *)
(*   SpecDA     DA.parse, DA.__unicode__ and parsing the result again      *)
(*   SpecSF     load_surface_forms and the analyze() loop around           *)
(*              _get_surface_form_taggedlemmas                             *)
(*   SpecDelex  get_delex_instr, _delex_das, _delex_texts on one example   *)
(*   SpecSplit  the size computation and the output loop of convert()      *)
(***************************************************************************)
EXTENDS Integers, Sequences, FiniteSets, TLC

VARIABLES
    pc,           \* position in the part of the program being run
    \* ---- DA notation
    da_text,      \* the input line given to DA.parse
    da,           \* the parsed DA: a sequence of DAIs
    ser,          \* unicode(da)
    da2,          \* DA.parse(unicode(da))
    \* ---- surface forms
    data,         \* the JSON entries load_surface_forms has gone through
    sf_dict,      \* self._sf_dict: tuple of tokens -> sequence of <<lemma, tag>>
    sf_max_len,   \* self._sf_max_len
    forms_in,     \* the deque forms_in of analyze()
    call_in,      \* forms_in as it was when _get_surface_form_taggedlemmas was entered
    sf_ret,       \* what _get_surface_form_taggedlemmas returned: [form, tls]
    forms_buf,    \* self._forms_buf as analyze() refills it
    \* ---- delexicalization (one sentence/DA pair of the buffers)
    das,          \* self._das[i]
    sents,        \* self._sents[i]: sequence of <<form, lemma, tag>>
    abst_slots,   \* self._abst_slots
    slots_found,  \* the value of `slot` at each idx of get_delex_instr's loop
    absts,        \* self._absts[i]
    delex_da,     \* _delex_das's output for the pair
    delex_text,   \* _delex_texts's output for the pair
    warned,       \* slots _delex_texts logged "Cannot delexicalize slot" for, in order
    \* ---- convert(): partition sizes and the output loop
    buf_length,   \* analyzer.buf_length()
    split,        \* args.split as a list of integers; <<>> without the option
    data_sizes,   \* data_sizes
    total,        \* total, as an integer
    remain,       \* remain
    part_no,      \* part_no of the sizing loop, then the index of the output loop
    offset,       \* offset
    written       \* how many times each example index was written as -das_l.txt lines

daVars == <<da_text, da, ser, da2>>
sfVars == <<data, sf_dict, sf_max_len, forms_in, call_in, sf_ret, forms_buf>>
dxVars == <<das, sents, abst_slots, slots_found, absts, delex_da, delex_text, warned>>
spVars == <<buf_length, split, data_sizes, total, remain, part_no, offset, written>>
vars == <<pc, daVars, sfVars, dxVars, spVars>>

None == "<None>"

(***************************************************************************)
(* Python string operations.                                               *)
(***************************************************************************)
Char(s, i) == SubSeq(s, i, i)

StartsWithAt(s, sub, i) ==
    i + Len(sub) - 1 <= Len(s) /\ SubSeq(s, i, i + Len(sub) - 1) = sub

\* s.find(sub) from position i (1-based); 0 when sub does not occur
RECURSIVE FindFrom(_, _, _)
FindFrom(s, sub, i) ==
    IF i + Len(sub) - 1 > Len(s) THEN 0
    ELSE IF StartsWithAt(s, sub, i) THEN i
    ELSE FindFrom(s, sub, i + 1)

Contains(s, sub) == FindFrom(s, sub, 1) # 0

\* s.split(sep)
RECURSIVE PySplit(_, _)
PySplit(s, sep) ==
    LET k == FindFrom(s, sep, 1) IN
    IF k = 0 THEN <<s>>
    ELSE <<SubSeq(s, 1, k - 1)>> \o PySplit(SubSeq(s, k + Len(sep), Len(s)), sep)

\* s.split(sep, 1)
PySplit1(s, sep) ==
    LET k == FindFrom(s, sep, 1) IN
    IF k = 0 THEN <<s>>
    ELSE <<SubSeq(s, 1, k - 1), SubSeq(s, k + Len(sep), Len(s))>>

\* sep.join(parts)
RECURSIVE PyJoin(_, _)
PyJoin(parts, sep) ==
    IF parts = <<>> THEN ""
    ELSE IF Len(parts) = 1 THEN parts[1]
    ELSE parts[1] \o sep \o PyJoin(Tail(parts), sep)

UpperChars == "ABCDEFGHIJKLMNOPQRSTUVWXYZ"
LowerChars == "abcdefghijklmnopqrstuvwxyz"

\* the lowercase letter of each uppercase letter
LowerOf ==
    [c \in {Char(UpperChars, i) : i \in 1..Len(UpperChars)} |->
        Char(LowerChars, CHOOSE i \in 1..Len(UpperChars) : Char(UpperChars, i) = c)]

LowerChar(c) == IF c \in DOMAIN LowerOf THEN LowerOf[c] ELSE c

\* s.lower()
RECURSIVE PyLower(_)
PyLower(s) ==
    IF s = "" THEN "" ELSE LowerChar(Char(s, 1)) \o PyLower(SubSeq(s, 2, Len(s)))

Digits == {"0", "1", "2", "3", "4", "5", "6", "7", "8", "9"}

\* re.match(r'^[0-9]+$', s)
IsNumber(s) == Len(s) > 0 /\ \A i \in 1..Len(s) : Char(s, i) \in Digits

\* re.sub(pat, repl, s, count=1) for a one-character literal pat
SubFirst(pat, repl, s) ==
    LET k == FindFrom(s, pat, 1) IN
    IF k = 0 THEN s
    ELSE SubSeq(s, 1, k - 1) \o repl \o SubSeq(s, k + 1, Len(s))

(***************************************************************************)
(* DAI and DA.                                                             *)
(***************************************************************************)
DAI(type, slot, value) == [type |-> type, slot |-> slot, value |-> value]

\* DAI.__unicode__
DAIUnicode(dai) ==
    IF dai.slot = None THEN dai.type \o "()"
    ELSE IF dai.value = None THEN dai.type \o "(" \o dai.slot \o ")"
    ELSE LET quote == IF Contains(dai.value, " ") \/ Contains(dai.value, ":")
                      THEN "'" ELSE ""
         IN dai.type \o "(" \o dai.slot \o "=" \o quote \o dai.value \o quote \o ")"

\* DA.__unicode__
DAUnicode(d) == PyJoin([i \in 1..Len(d) |-> DAIUnicode(d[i])], "&")

\* the body of DA.parse's loop for one dai_text
ParseDAI(dai_text) ==
    LET parts == PySplit1(dai_text, "(")
        da_type == parts[1]
        svp == parts[2]
    IN  IF svp = "" THEN DAI(da_type, None, None)
        ELSE IF ~Contains(svp, "=") THEN DAI(da_type, svp, None)
        ELSE LET sv == PySplit1(svp, "=")
                 value == IF StartsWithAt(sv[2], "\"", 1)
                          THEN SubSeq(sv[2], 2, Len(sv[2]) - 1)
                          ELSE sv[2]
             IN DAI(da_type, sv[1], value)

\* the dai_texts of DA.parse: da_text[:-1].split(')&')
DAITexts(text) == PySplit(SubSeq(text, 1, Len(text) - 1), ")&")

\* DA.parse raises ValueError on a dai_text without "("
Parsable(text) ==
    \A i \in 1..Len(DAITexts(text)) : Contains(DAITexts(text)[i], "(")

\* DA.parse
DAParse(text) ==
    LET dai_texts == DAITexts(text)
    IN [i \in 1..Len(dai_texts) |-> ParseDAI(dai_texts[i])]

\* one pattern character against one character of the subject: "." matches
\* any character, every other character of the modelled lemmas is a literal
AtomMatches(p, c) == p = "." \/ p = c

\* the pattern `value`, spliced unescaped into a regular expression, against
\* the whole of s
PatMatches(value, s) ==
    Len(value) = Len(s) /\ \A i \in 1..Len(s) : AtomMatches(Char(value, i), Char(s, i))

CoordWords == {" and ", " or "}

\* re.match(r'.* (and|or) ' + value + r'$', dai_value)
MatchCoordLast(value, dai_value) ==
    \E k \in 1..Len(dai_value) : \E w \in CoordWords :
        /\ StartsWithAt(dai_value, w, k)
        /\ PatMatches(value, SubSeq(dai_value, k + Len(w), Len(dai_value)))

\* re.match(r'^' + value + r' (and|or) ', dai_value)
MatchCoordFirst(value, dai_value) ==
    /\ Len(value) <= Len(dai_value)
    /\ PatMatches(value, SubSeq(dai_value, 1, Len(value)))
    /\ \E w \in CoordWords : StartsWithAt(dai_value, w, Len(value) + 1)

\* the two conditions of has_value's loop body under which it returns dai.slot
DAIHasValue(dai, value) ==
    \/ dai.value = value
    \/ /\ dai.value # None
       /\ value \notin {None, "?"}
       /\ (MatchCoordLast(value, dai.value) \/ MatchCoordFirst(value, dai.value))

\* DA.has_value: the loop over self.dais from item i on
RECURSIVE HasValueFrom(_, _, _)
HasValueFrom(d, value, i) ==
    IF i > Len(d) THEN None
    ELSE IF DAIHasValue(d[i], value) THEN d[i].slot
    ELSE HasValueFrom(d, value, i + 1)

\* has_value as it would be if a later matching item won over an earlier one
RECURSIVE HasValueLastFrom(_, _, _)
HasValueLastFrom(d, value, i) ==
    IF i < 1 THEN None
    ELSE IF DAIHasValue(d[i], value) THEN d[i].slot
    ELSE HasValueLastFrom(d, value, i - 1)

has_value_last(d, value) == HasValueLastFrom(d, value, Len(d))

has_value(d, value) == HasValueFrom(d, value, 1)

(***************************************************************************)
(* Delexicalization.                                                       *)
(***************************************************************************)
\* Python truth value of a string or None
Truthy(x) == x # None /\ x # ""

Abst(slot, value, start, end) ==
    [slot |-> slot, value |-> value, start |-> start, end |-> end]

\* the value of `slot` at each idx of get_delex_instr's loop
SlotsFound(analyzed, d) == [i \in 1..Len(analyzed) |-> has_value(d, analyzed[i][2])]

\* get_delex_instr as it would be with 1-based token positions
get_delex_instr_from1(analyzed, d) ==
    LET cand == [i \in 1..Len(analyzed) |->
                    Abst(has_value(d, analyzed[i][2]), analyzed[i][2], i, i + 1)]
    IN SelectSeq(cand, LAMBDA a : Truthy(a.slot))

\* MorphoAnalyzer.get_delex_instr; idx is 0-based as in the code
get_delex_instr(analyzed, d) ==
    LET cand == [i \in 1..Len(analyzed) |->
                    Abst(has_value(d, analyzed[i][2]), analyzed[i][2], i - 1, i)]
    IN SelectSeq(cand, LAMBDA a : Truthy(a.slot))

\* the loop body as it would be without the test of self._abst_slots
DelexDAIAnySlot(dai, abst) ==
    DAI(dai.type, dai.slot,
        IF Truthy(dai.value) THEN "X-" \o dai.slot ELSE dai.value)

\* the body of _delex_das's inner loop
DelexDAI(dai, abst) ==
    DAI(dai.type, dai.slot,
        IF Truthy(dai.value) /\ dai.slot \in abst THEN "X-" \o dai.slot ELSE dai.value)

\* MorphoAnalyzer._delex_das for one DA of the subrange
DelexDA(d, abst) == [i \in 1..Len(d) |-> DelexDAI(d[i], abst)]

\* whether _delex_texts abstracts a token with this lemma
Abstracted(lemma, d, abst) ==
    Truthy(has_value(d, lemma)) /\ has_value(d, lemma) \in abst

\* the loop body as it would be if only the lemma were replaced
DelexTokenKeepsForm(tok, d, abst) ==
    IF Abstracted(tok[2], d, abst)
    THEN <<tok[1], "X-" \o has_value(d, tok[2]), tok[3]>>
    ELSE tok

\* the body of _delex_texts's loop over the tokens
DelexToken(tok, d, abst) ==
    IF Abstracted(tok[2], d, abst)
    THEN <<"X-" \o has_value(d, tok[2]), "X-" \o has_value(d, tok[2]), tok[3]>>
    ELSE tok

\* MorphoAnalyzer._delex_texts for one pair of the subrange: delex_text
DelexText(text, d, abst) == [i \in 1..Len(text) |-> DelexToken(text[i], d, abst)]

\* covered_slots at the end of _delex_texts's loop over the tokens
CoveredSlots(text, d, abst) ==
    {has_value(d, text[i][2]) : i \in {j \in 1..Len(text) : Abstracted(text[j][2], d, abst)}}

NoValue == {None, "none", "dont_care"}

\* the slots _delex_texts logs "Cannot delexicalize slot" for, in the DA's order
Warnings(text, d, abst) ==
    LET covered_slots == CoveredSlots(text, d, abst)
        uncovered == SelectSeq(d, LAMBDA dai :
                        /\ dai.slot \in abst
                        /\ dai.value \notin NoValue
                        /\ dai.slot \notin covered_slots)
    IN [i \in 1..Len(uncovered) |-> uncovered[i].slot]


(***************************************************************************)
(* The surface-form dictionary.                                            *)
(***************************************************************************)
Max(a, b) == IF a >= b THEN a ELSE b
Min(a, b) == IF a <= b THEN a ELSE b

\* one surface form of the JSON file: data[slot][value] holds surface_form
SFEntry(slot, value, surface_form) ==
    [slot |-> slot, value |-> value, surface_form |-> surface_form]

\* form, tag = surface_form.split("\t")
SFForm(e) == PySplit(e.surface_form, "\t")[1]
SFTag(e) == PySplit(e.surface_form, "\t")[2]

\* form_toks of load_surface_forms, with the street number placeholder
SFFormToks(e) ==
    LET form_toks == PySplit(PyLower(SFForm(e)), " ")
    IN IF e.slot = "street" THEN Append(form_toks, "_") ELSE form_toks

\* lemma of load_surface_forms, with the street number placeholder
SFLemma(e) == IF e.slot = "street" THEN e.value \o " _" ELSE e.value

\* self._sf_dict after the body of load_surface_forms's loop for entry e
SFDictAdd(dict, e) ==
    LET form_toks == SFFormToks(e)
        item == <<SFLemma(e), SFTag(e)>>
    IN [k \in DOMAIN dict \cup {form_toks} |->
            IF k = form_toks
            THEN IF k \in DOMAIN dict THEN Append(dict[k], item) ELSE <<item>>
            ELSE dict[k]]

\* self._sf_max_len after the body of load_surface_forms's loop for entry e
SFMaxLenAdd(max_len, e) == Max(max_len, Len(SFFormToks(e)))

\* test_substr: the first test_len forms, numbers as "_", the rest lowercased
TestSubstr(forms, test_len) ==
    [i \in 1..test_len |-> IF IsNumber(forms[i]) THEN "_" ELSE PyLower(forms[i])]

\* for num in nums: lemma = re.sub(r'_', num, lemma, count=1)
RECURSIVE FillNums(_, _)
FillNums(lemma, nums) ==
    IF nums = <<>> THEN lemma
    ELSE FillNums(SubFirst("_", Head(nums), lemma), Tail(nums))

\* the tagged lemmas built for a dictionary hit on full_substr
TaggedLemmas(items, full_substr) ==
    LET nums == SelectSeq(full_substr, IsNumber)
    IN [i \in 1..Len(items) |-> <<FillNums(items[i][1], nums), items[i][2]>>]

\* the loop of _get_surface_form_taggedlemmas from test_len down to 1;
\* popped is the number of forms taken from the front of the deque
RECURSIVE SFLookupFrom(_, _, _)
SFLookupFrom(dict, forms, test_len) ==
    IF test_len < 1 THEN [form |-> None, tls |-> None, popped |-> 0]
    ELSE IF TestSubstr(forms, test_len) \in DOMAIN dict
    THEN LET full_substr == SubSeq(forms, 1, test_len)
         IN [form |-> PyJoin(full_substr, " "),
             tls |-> TaggedLemmas(dict[TestSubstr(forms, test_len)], full_substr),
             popped |-> test_len]
    ELSE SFLookupFrom(dict, forms, test_len - 1)

\* the loop as it would be if it tried the short windows first
RECURSIVE SFLookupUp(_, _, _, _)
SFLookupUp(dict, forms, test_len, last) ==
    IF test_len > last THEN [form |-> None, tls |-> None, popped |-> 0]
    ELSE IF TestSubstr(forms, test_len) \in DOMAIN dict
    THEN LET full_substr == SubSeq(forms, 1, test_len)
         IN [form |-> PyJoin(full_substr, " "),
             tls |-> TaggedLemmas(dict[TestSubstr(forms, test_len)], full_substr),
             popped |-> test_len]
    ELSE SFLookupUp(dict, forms, test_len + 1, last)

get_surface_form_shortest(dict, max_len, forms) ==
    SFLookupUp(dict, forms, 1, Min(max_len, Len(forms)))

\* MorphoAnalyzer._get_surface_form_taggedlemmas
get_surface_form_taggedlemmas(dict, max_len, forms) ==
    SFLookupFrom(dict, forms, Min(max_len, Len(forms)))

(***************************************************************************)
(* convert(): partition sizes and slices.                                  *)
(***************************************************************************)
RECURSIVE SumSeq(_)
SumSeq(q) == IF q = <<>> THEN 0 ELSE Head(q) + SumSeq(Tail(q))

\* the size as it would be without round(): int() cuts the quotient
TruncDiv(num, den) == num \div den

\* int(round(num / den)) for num >= 0, den > 0: Python 2's round() takes a
\* half away from zero
RoundDiv(num, den) == (2 * num + den) \div (2 * den)

\* int(round(analyzer.buf_length() * (data_sizes[part_no] / total)))
PartSize(n, weight, tot) == RoundDiv(n * weight, tot)

\* a slice bound as Python clips it for a list of length n
SliceBound(i, n) == IF i < 0 THEN Max(i + n, 0) ELSE Min(i, n)

\* the 0-based indices of a list of length n that slice(start, stop) selects
SliceIndices(n, start, stop) == SliceBound(start, n) .. (SliceBound(stop, n) - 1)

(***************************************************************************)
(* Idle values of each part's variables.                                   *)
(***************************************************************************)
NoRet == [form |-> None, tls |-> None]

IdleDA == da_text = "" /\ da = <<>> /\ ser = "" /\ da2 = <<>>

IdleSF ==
    /\ data = <<>> /\ sf_dict = <<>> /\ sf_max_len = 0
    /\ forms_in = <<>> /\ call_in = <<>> /\ sf_ret = NoRet /\ forms_buf = <<>>

IdleDelex ==
    /\ das = <<>> /\ sents = <<>> /\ abst_slots = {} /\ slots_found = <<>>
    /\ absts = <<>> /\ delex_da = <<>> /\ delex_text = <<>> /\ warned = <<>>

IdleSplit ==
    /\ buf_length = 0 /\ split = <<>> /\ data_sizes = <<>> /\ total = 0 /\ remain = 0
    /\ part_no = 0 /\ offset = 0 /\ written = <<>>

\* all sequences over S of length lo..hi
SeqsOf(S, lo, hi) == UNION {[1..n -> S] : n \in lo..hi}

(***************************************************************************)
(* SpecDA: a DA line is parsed, written out, and parsed again.             *)
(***************************************************************************)
MaxItems == 2

DATypes == {"inform", "hello"}

\* bracket bodies of the input notation: none, a slot, slot=value with the
\* value plain, in double quotes, holding a colon, or empty
DABodies == {"", "food", "food=italian", "name=\"Pizza Place\"", "time=9:30", "food="}

DAItemTexts == {t \o "(" \o b \o ")" : t \in DATypes, b \in DABodies}

DALines == {PyJoin(items, "&") : items \in SeqsOf(DAItemTexts, 1, MaxItems)}

InitDA ==
    /\ pc = "line"
    /\ da_text \in DALines
    /\ da = <<>> /\ ser = "" /\ da2 = <<>>
    /\ IdleSF /\ IdleDelex /\ IdleSplit

\* process_files: self._das.append(DA.parse(line.strip()))
Parse ==
    /\ pc = "line"
    /\ Parsable(da_text)
    /\ da' = DAParse(da_text)
    /\ pc' = "parsed"
    /\ UNCHANGED <<da_text, ser, da2, sfVars, dxVars, spVars>>

\* _write_plain: unicode(data_item) for a DA
Serialize ==
    /\ pc = "parsed"
    /\ ser' = DAUnicode(da)
    /\ pc' = "written"
    /\ UNCHANGED <<da_text, da, da2, sfVars, dxVars, spVars>>

\* the written line read back by DA.parse
Reparse ==
    /\ pc = "written"
    /\ Parsable(ser)
    /\ da2' = DAParse(ser)
    /\ pc' = "reparsed"
    /\ UNCHANGED <<da_text, da, ser, sfVars, dxVars, spVars>>

NextDA == Parse \/ Serialize \/ Reparse

SpecDA == InitDA /\ [][NextDA]_vars

\* no value of the DA holds a quote character
C1_NoQuotes(d) ==
    \A i \in 1..Len(d) :
        d[i].value # None => (~Contains(d[i].value, "'") /\ ~Contains(d[i].value, "\""))

\* C1: a parsed DA whose values hold no quote character is the same, item by
\* item, after it is written out and parsed again.
C1_RoundTrip ==
    (pc = "reparsed" /\ C1_NoQuotes(da)) => da2 = da

(***************************************************************************)
(* SpecDelex: one sentence/DA pair goes through get_delex_instr (at the    *)
(* end of process_files), then _delex_das and _delex_texts (from           *)
(* write_das and write_text with delex=True).                              *)
(***************************************************************************)
MaxDAIs == 2
MaxTokens == 2

Slots == {"food", "name"}

\* a plain value, a coordination, a value _delex_texts never warns about,
\* and the empty value of "inform(food=)"
Values == {"2", "2 or 3", "none", ""}

DAIs ==
    {DAI("hello", None, None)}
    \cup {DAI("request", s, None) : s \in Slots}
    \cup {DAI("inform", s, v) : s \in Slots, v \in Values}

\* analyzed tokens <<form, lemma, tag>>; "." is the lemma of a full stop
Tokens == {<<"2", "2", "C=">>, <<"3", "3", "C=">>, <<".", ".", "Z:">>}

AbstSets == {{"food"}, {"name"}, {"food", "name"}}

InitDelex ==
    /\ pc = "loaded"
    /\ das \in SeqsOf(DAIs, 1, MaxDAIs)
    /\ sents \in SeqsOf(Tokens, 0, MaxTokens)
    /\ abst_slots \in AbstSets
    /\ slots_found = <<>> /\ absts = <<>>
    /\ delex_da = <<>> /\ delex_text = <<>> /\ warned = <<>>
    /\ IdleDA /\ IdleSF /\ IdleSplit

\* process_files: self._absts = [self.get_delex_instr(sent, da) ...]
GetDelexInstr ==
    /\ pc = "loaded"
    /\ slots_found' = SlotsFound(sents, das)
    /\ absts' = get_delex_instr(sents, das)
    /\ pc' = "processed"
    /\ UNCHANGED <<das, sents, abst_slots, delex_da, delex_text, warned,
                   daVars, sfVars, spVars>>

\* write_das(..., delex=True)
WriteDelexDas ==
    /\ pc = "processed"
    /\ delex_da' = DelexDA(das, abst_slots)
    /\ pc' = "das_written"
    /\ UNCHANGED <<das, sents, abst_slots, slots_found, absts, delex_text, warned,
                   daVars, sfVars, spVars>>

\* write_text(..., delex=True)
WriteDelexText ==
    /\ pc = "das_written"
    /\ delex_text' = DelexText(sents, das, abst_slots)
    /\ warned' = Warnings(sents, das, abst_slots)
    /\ pc' = "text_written"
    /\ UNCHANGED <<das, sents, abst_slots, slots_found, absts, delex_da,
                   daVars, sfVars, spVars>>

NextDelex == GetDelexInstr \/ WriteDelexDas \/ WriteDelexText

SpecDelex == InitDelex /\ [][NextDelex]_vars


(***************************************************************************)
(* Properties of SpecDelex.                                                *)
(***************************************************************************)
Range(f) == {f[i] : i \in DOMAIN f}

Placeholder(slot) == "X-" \o slot

\* the text has a token whose surface form is the slot's placeholder
TextHasPlaceholder(text, slot) ==
    \E i \in 1..Len(text) : text[i][1] = Placeholder(slot)

\* item k of the DA got the placeholder from _delex_das, its value is not
\* none/dont_care, and no warning was logged for its slot
C2_Case(k) ==
    /\ delex_da[k].value = Placeholder(das[k].slot)
    /\ das[k].value \notin {"none", "dont_care"}
    /\ das[k].slot \notin Range(warned)

\* C2: whenever the delexicalized DA holds the placeholder of a slot whose
\* original value is not none/dont_care and _delex_texts logged no warning
\* for that slot, some token of the delexicalized text has that placeholder
\* as its surface form.
C2_DelexPairConsistent ==
    pc = "text_written" =>
        \A k \in 1..Len(das) :
            C2_Case(k) => TextHasPlaceholder(delex_text, das[k].slot)

C2_Witness ==
    /\ pc = "text_written"
    /\ Len(das) = 2
    /\ C2_Case(1)
    /\ das[2].slot \in Range(warned)

\* token i is abstracted to the placeholder of slot s without a warning for s
C3_Covered(i, s) ==
    /\ delex_text[i][1] = Placeholder(s)
    /\ delex_text[i][2] = Placeholder(s)
    /\ s \notin Range(warned)

\* item k has an abstractable slot and token i's lemma is its value
C3_Present(k, i) ==
    /\ das[k].slot \in abst_slots
    /\ das[k].value = sents[i][2]

\* C3 as stated: a token whose lemma is the value of an item with an
\* abstractable slot s becomes the placeholder of s, with no warning for s,
\* whatever other items the DA holds.
C3_AsStated ==
    pc = "text_written" =>
        \A k \in 1..Len(das) : \A i \in 1..Len(sents) :
            C3_Present(k, i) => C3_Covered(i, das[k].slot)

\* every item before item k that has_value matches the lemma against has
\* item k's slot
C3_FirstOfItsSlot(k, lemma) ==
    \A j \in 1..(k - 1) : DAIHasValue(das[j], lemma) => das[j].slot = das[k].slot

\* C3 (amended): a token whose lemma is the value of an item with an
\* abstractable slot s becomes the placeholder of s, with no warning for s,
\* provided every earlier item of the DA whose value has_value matches the
\* lemma against (an equal value or a coordination) has slot s too.
C3_CoveredWhenFirst ==
    pc = "text_written" =>
        \A k \in 1..Len(das) : \A i \in 1..Len(sents) :
            (C3_Present(k, i) /\ C3_FirstOfItsSlot(k, sents[i][2]))
                => C3_Covered(i, das[k].slot)

C3_Witness ==
    /\ pc = "text_written"
    /\ Len(das) = 2 /\ Len(sents) >= 1
    /\ das[1].slot # das[2].slot
    /\ das[1].value = "2" /\ das[2].value = "2 or 3"
    /\ C3_Present(1, 1) /\ C3_Covered(1, das[1].slot)
    /\ das[2].slot \in Range(warned)

\* v is a whole member of the coordination dai_value: dai_value ends with
\* " and v" / " or v" or starts with "v and " / "v or "
IsCoordMember(v, dai_value) ==
    \E w \in CoordWords :
        \/ /\ Len(dai_value) >= Len(w \o v)
           /\ StartsWithAt(dai_value, w \o v, Len(dai_value) - Len(w \o v) + 1)
        \/ StartsWithAt(dai_value, v \o w, 1)

\* no item's value is v or a coordination with v as a whole member
C4_Absent(v) ==
    \A k \in 1..Len(das) :
        /\ das[k].value # v
        /\ (das[k].value # None => ~IsCoordMember(v, das[k].value))

\* C4: has_value returns None for a lemma that is no item's value and no
\* whole member of an item's coordination.
C4_NoneWhenAbsent ==
    pc # "loaded" =>
        \A i \in 1..Len(sents) : C4_Absent(sents[i][2]) => slots_found[i] = None

\* structure of the delexicalized DA against its source
C7_Structure ==
    /\ Len(delex_da) = Len(das)
    /\ \A k \in 1..Len(das) :
        /\ delex_da[k].type = das[k].type
        /\ delex_da[k].slot = das[k].slot
        /\ delex_da[k].value # das[k].value =>
            /\ das[k].slot \in abst_slots
            /\ das[k].value # None
            /\ delex_da[k].value = Placeholder(das[k].slot)

\* C7: _delex_das keeps the number, order, type and slot of the items; a
\* value changes only for an abstractable slot with a value set, and then to
\* the slot's placeholder; the source DA is never modified.
C7_DelexDasPreservesStructure ==
    /\ [](pc \in {"das_written", "text_written"} => C7_Structure)
    /\ [][das' = das]_vars

C7_Witness ==
    /\ pc = "das_written"
    /\ Len(das) = 2
    /\ delex_da[1].value # das[1].value
    /\ das[2].value = "2" /\ delex_da[2].value = "2"

\* the instructions whose span starts at token position i (0-based)
C8_At(i) == {n \in 1..Len(absts) : absts[n].start = i}

\* C8: get_delex_instr returns exactly one Abst(slot, L, i, i+1) for each
\* token position i whose lemma L has_value finds a slot for and none for
\* the other positions, in increasing order of i, each span one token wide
\* and inside the sentence, no two overlapping.
C8_SpanBookkeeping ==
    pc # "loaded" =>
        /\ \A i \in 1..Len(sents) :
            LET slot == has_value(das, sents[i][2]) IN
            IF slot # None
            THEN /\ Cardinality(C8_At(i - 1)) = 1
                 /\ \A n \in C8_At(i - 1) :
                        absts[n] = Abst(slot, sents[i][2], i - 1, i)
            ELSE C8_At(i - 1) = {}
        /\ \A n \in 1..Len(absts) :
            /\ 0 <= absts[n].start
            /\ absts[n].end = absts[n].start + 1
            /\ absts[n].end <= Len(sents)
        /\ \A m, n \in 1..Len(absts) : m < n => absts[m].end <= absts[n].start

C8_Witness ==
    /\ pc = "processed"
    /\ Len(sents) = 2 /\ Len(absts) = 1
    /\ absts[1].start = 1


(***************************************************************************)
(* SpecSF: surface forms are loaded one JSON entry after the other, then   *)
(* analyze() runs its loop over the forms of one sentence.                 *)
(***************************************************************************)
MaxEntries == 3
MaxForms == 3

\* a street, the same street spelt with an underscore in its canonical
\* value, and two names that are prefixes of the street's phrase
SFEntries ==
    { SFEntry("street", "Main St", "main st\tNNP"),
      SFEntry("street", "Main_St", "Main St\tNNP"),
      SFEntry("name", "Main", "Main\tNN"),
      SFEntry("name", "Main St", "main st\tNN") }

Forms == {"Main", "main", "St", "42", "v"}

InitSF ==
    /\ pc = "load"
    /\ data = <<>> /\ sf_dict = <<>> /\ sf_max_len = 0
    /\ forms_in = <<>> /\ call_in = <<>> /\ sf_ret = NoRet /\ forms_buf = <<>>
    /\ IdleDA /\ IdleDelex /\ IdleSplit

\* load_surface_forms: the loop body for one surface form
LoadSurfaceForm ==
    /\ pc = "load"
    /\ Len(data) < MaxEntries
    /\ \E e \in SFEntries \ Range(data) :
        /\ data' = Append(data, e)
        /\ sf_dict' = SFDictAdd(sf_dict, e)
        /\ sf_max_len' = SFMaxLenAdd(sf_max_len, e)
    /\ UNCHANGED <<pc, forms_in, call_in, sf_ret, forms_buf, daVars, dxVars, spVars>>

\* analyze: forms_in = deque(self._forms_buf); self._forms_buf.resize(0)
StartSentence ==
    /\ pc = "load"
    /\ \E forms \in SeqsOf(Forms, 0, MaxForms) : forms_in' = forms
    /\ forms_buf' = <<>>
    /\ pc' = "analyze"
    /\ UNCHANGED <<data, sf_dict, sf_max_len, call_in, sf_ret, daVars, dxVars, spVars>>

\* analyze: form, analyses = self._get_surface_form_taggedlemmas(forms_in)
CallGetSurfaceForm ==
    /\ pc = "analyze"
    /\ forms_in # <<>>
    /\ LET r == get_surface_form_taggedlemmas(sf_dict, sf_max_len, forms_in)
       IN /\ sf_ret' = [form |-> r.form, tls |-> r.tls]
          /\ forms_in' = SubSeq(forms_in, r.popped + 1, Len(forms_in))
    /\ call_in' = forms_in
    /\ pc' = "returned"
    /\ UNCHANGED <<data, sf_dict, sf_max_len, forms_buf, daVars, dxVars, spVars>>

\* analyze: the rest of the loop body, up to self._forms_buf.push_back(form);
\* without a surface form one form is popped for the external analyzer
UseSurfaceForm ==
    /\ pc = "returned"
    /\ IF Truthy(sf_ret.form)
       THEN /\ forms_buf' = Append(forms_buf, sf_ret.form)
            /\ UNCHANGED forms_in
       ELSE /\ forms_buf' = Append(forms_buf, Head(forms_in))
            /\ forms_in' = Tail(forms_in)
    /\ pc' = "analyze"
    /\ UNCHANGED <<data, sf_dict, sf_max_len, call_in, sf_ret, daVars, dxVars, spVars>>

NextSF == LoadSurfaceForm \/ StartSentence \/ CallGetSurfaceForm \/ UseSurfaceForm

SpecSF == InitSF /\ [][NextSF]_vars

\* the window lengths of the deque's prefix that are keys of the dictionary
C5_KeyLens == {n \in 1..Len(call_in) : TestSubstr(call_in, n) \in DOMAIN sf_dict}

C5_Longest == CHOOSE n \in C5_KeyLens : \A m \in C5_KeyLens : m <= n

\* C5: _get_surface_form_taggedlemmas returns the longest window of the
\* deque's prefix that is a key and removes exactly that many forms; with no
\* such window it returns (None, None) and leaves the deque as it was.
C5_GreedyLongestMatch ==
    pc = "returned" =>
        IF C5_KeyLens # {}
        THEN /\ sf_ret.form = PyJoin(SubSeq(call_in, 1, C5_Longest), " ")
             /\ Len(sf_ret.tls) = Len(sf_dict[TestSubstr(call_in, C5_Longest)])
             /\ forms_in = SubSeq(call_in, C5_Longest + 1, Len(call_in))
        ELSE /\ sf_ret = NoRet
             /\ forms_in = call_in

C5_Witness ==
    /\ pc = "returned"
    /\ Cardinality(C5_KeyLens) = 3
    /\ sf_ret.form = "Main St 42"
    /\ forms_in = <<>>

\* the deque starts with the phrase of entry e, in any letter case, followed
\* by a number
C6_Case(e) ==
    LET phrase == PySplit(SFForm(e), " ")
        n == Len(phrase)
    IN /\ e.slot = "street"
       /\ Len(call_in) >= n + 1
       /\ \A i \in 1..n : PyLower(call_in[i]) = PyLower(phrase[i])
       /\ IsNumber(call_in[n + 1])

\* C6: for a loaded street entry with canonical value V and an n-token
\* phrase, a deque that starts with the phrase and a number N loses n+1
\* forms and V + " " + N is among the returned lemmas.
C6_StreetNumber ==
    pc = "returned" =>
        \A j \in 1..Len(data) :
            C6_Case(data[j]) =>
                LET n == Len(PySplit(SFForm(data[j]), " ")) IN
                /\ Len(call_in) - Len(forms_in) = n + 1
                /\ \E t \in 1..Len(sf_ret.tls) :
                    sf_ret.tls[t][1] = data[j].value \o " " \o call_in[n + 1]


(***************************************************************************)
(* SpecSplit: convert() computes the partition sizes and writes the parts. *)
(***************************************************************************)
MaxN == 6
MaxParts == 4
MaxWeight == 3

\* the buffer lengths tried: the small ones, and the 100 of the 3:1:1 example
BufLengths == (0..MaxN) \cup {100}

InitSplit ==
    /\ pc = "convert"
    /\ buf_length \in BufLengths
    /\ split \in SeqsOf(1..MaxWeight, 0, MaxParts)
    /\ data_sizes = <<>> /\ total = 0 /\ remain = 0
    /\ part_no = 0 /\ offset = 0
    /\ written = [i \in 0..(buf_length - 1) |-> 0]
    /\ IdleDA /\ IdleSF /\ IdleDelex

\* if args.split: data_sizes, total and remain before the sizing loop
StartSplit ==
    /\ pc = "convert"
    /\ split # <<>>
    /\ data_sizes' = split
    /\ total' = SumSeq(split)
    /\ remain' = buf_length
    /\ part_no' = Len(split)
    /\ pc' = "sizing"
    /\ UNCHANGED <<buf_length, split, offset, written, daVars, sfVars, dxVars>>

\* else: one part with all the data
NoSplit ==
    /\ pc = "convert"
    /\ split = <<>>
    /\ data_sizes' = <<buf_length>>
    /\ part_no' = 1
    /\ pc' = "writing"
    /\ UNCHANGED <<buf_length, split, total, remain, offset, written,
                   daVars, sfVars, dxVars>>

\* one round of the sizing loop; part_no is 1-based here, so the loop runs
\* from the last part down to part 2
SizePart ==
    /\ pc = "sizing"
    /\ part_no >= 2
    /\ LET part_size == PartSize(buf_length, data_sizes[part_no], total)
       IN /\ data_sizes' = [data_sizes EXCEPT ![part_no] = part_size]
          /\ remain' = remain - part_size
    /\ part_no' = part_no - 1
    /\ UNCHANGED <<pc, buf_length, split, total, offset, written, daVars, sfVars, dxVars>>

\* data_sizes[0] = remain
SizeFirst ==
    /\ pc = "sizing"
    /\ part_no = 1
    /\ data_sizes' = [data_sizes EXCEPT ![1] = remain]
    /\ pc' = "writing"
    /\ UNCHANGED <<buf_length, split, total, remain, part_no, offset, written,
                   daVars, sfVars, dxVars>>

\* one round of the output loop: the part's slice of the buffers is written
WritePart ==
    /\ pc = "writing"
    /\ part_no <= Len(data_sizes)
    /\ LET part_size == data_sizes[part_no]
           subrange == SliceIndices(buf_length, offset, offset + part_size)
       IN /\ written' = [i \in DOMAIN written |->
                            IF i \in subrange THEN written[i] + 1 ELSE written[i]]
          /\ offset' = offset + part_size
    /\ part_no' = part_no + 1
    /\ UNCHANGED <<pc, buf_length, split, data_sizes, total, remain, daVars, sfVars, dxVars>>

NextSplit == StartSplit \/ NoSplit \/ SizePart \/ SizeFirst \/ WritePart

SpecSplit == InitSplit /\ [][NextSplit]_vars

Abs(x) == IF x < 0 THEN -x ELSE x

\* size is the rounded value of n * weight / tot: within a half of it
C9_IsRounded(size, n, weight, tot) ==
    Abs(2 * tot * size - 2 * n * weight) <= tot

C10_PartitionsCoverOnce ==
    /\ pc = "writing" => \A i \in 1..Len(data_sizes) : data_sizes[i] >= 0
    /\ (pc = "writing" /\ part_no > Len(data_sizes)) =>
            \A i \in DOMAIN written : written[i] = 1


(***************************************************************************)
(* The four parts together.                                                *)
(***************************************************************************)
Init == InitDA \/ InitSF \/ InitDelex \/ InitSplit

Next == NextDA \/ NextSF \/ NextDelex \/ NextSplit

Spec == Init /\ [][Next]_vars

====
